---- MODULE Spec2Model ----
(***************************************************************************)
(* Model of the clouds data-set indexer: dataset.py (one_hot_encoded,      *)
(* DataSet, load_cached) and cloudy.py (load, copy_files).                 *)
(*                                                                         *)
(* A path is the sequence of its components; a Python str that the code    *)
(* inspects character by character (a file name, the exts argument) is the *)
(* sequence of its characters.                                             *)
(***************************************************************************)
EXTENDS Integers, Sequences, FiniteSets, TLC

VARIABLES fs, unreadable, dataset, firstSets, builds, nLoads, sets,
          fresh, copies, exported, lastCopy, enc, pc, loc, tmp

vars == <<fs, unreadable, dataset, firstSets, builds, nLoads, sets,
          fresh, copies, exported, lastCopy, enc, pc, loc, tmp>>

(* ---------------------------------------------------------------- bounds *)
\* Most files (over all classes and both splits) of an initial tree.
MaxFiles == 2
\* Most load() calls of one run (copy_files() makes one too).
MaxLoads == 2
\* Most copy_files() calls of one run.
MaxCopies == 2
\* Largest num_classes and longest class_numbers given to one_hot_encoded.
MaxEncClasses == 2
MaxEncLen == 2

(* ------------------------------------------------------- Python values *)
None == [tag |-> "None"]
OSError == [tag |-> "OSError"]

RECURSIVE Perms(_)
\* Every ordering of the finite set S.
Perms(S) ==
    IF S = {} THEN {<<>>}
    ELSE UNION {{<<x>> \o p : p \in Perms(S \ {x})} : x \in S}

\* The characters of the names that occur in a tree.
Chars(name) ==
    CASE name = "a.jpg"  -> <<"a", ".", "j", "p", "g">>
      [] name = "B.JPG"  -> <<"B", ".", "J", "P", "G">>
      [] name = "c.png"  -> <<"c", ".", "p", "n", "g">>
      [] name = "d.txt"  -> <<"d", ".", "t", "x", "t">>
      [] name = "cirrus" -> <<"c", "i", "r", "r", "u", "s">>
      [] name = "fog"    -> <<"f", "o", "g">>
      [] name = "test"   -> <<"t", "e", "s", "t">>
      [] name = "train"  -> <<"t", "r", "a", "i", "n">>
      [] name = "clouds-images.pkl" ->
             <<"c", "l", "o", "u", "d", "s", "-", "i", "m", "a", "g", "e", "s",
               ".", "p", "k", "l">>

\* str.lower() of one character.
LowerChar(c) ==
    CASE c = "B" -> "b"
      [] c = "J" -> "j"
      [] c = "P" -> "p"
      [] c = "G" -> "g"
      [] OTHER   -> c

\* str.lower().
Lower(s) == [i \in 1..Len(s) |-> LowerChar(s[i])]

\* Iterating a Python str yields its characters as one-character strs.
IterStr(s) == [i \in 1..Len(s) |-> <<s[i]>>]

\* s.endswith(suffixes), suffixes a tuple of strs: true when any one matches.
EndsWith(s, suffixes) ==
    \E k \in DOMAIN suffixes :
        /\ Len(suffixes[k]) <= Len(s)
        /\ SubSeq(s, Len(s) - Len(suffixes[k]) + 1, Len(s)) = suffixes[k]

(* ------------------------------------------------------- cloudy's paths *)
\* cloudy.data_dir = "data/clouds-images/", as DataSet's abspath() leaves it.
data_dir == <<"data", "clouds-images">>
\* os.path.join(data_dir, "train/") and os.path.join(data_dir, "test/").
train_dir == data_dir \o <<"train">>
test_dir == data_dir \o <<"test">>
\* os.path.join(data_dir, "clouds-images.pkl"), in load().
cache_path == data_dir \o <<"clouds-images.pkl">>
\* DataSet's exts parameter as load_cached leaves it: the default, a str.
DefaultExts == <<".", "j", "p", "g">>

(* ------------------------------------------------------- the filesystem *)
\* fs.dirs: the directories; fs.files: each regular file's content.
Exists(f, p) == p \in f.dirs \/ p \in DOMAIN f.files
IsDir(f, p) == p \in f.dirs

\* The names immediately inside directory d.
Entries(f, d) ==
    {p[Len(d) + 1] : p \in {q \in f.dirs \cup DOMAIN f.files :
                               Len(q) = Len(d) + 1 /\ SubSeq(q, 1, Len(d)) = d}}

\* The directories a DataSet scan lists: the root, each class directory and
\* each existing entry named test of a class directory.
Listed(f, root) ==
    LET classes == {root \o <<n>> : n \in {m \in Entries(f, root) : IsDir(f, root \o <<m>>)}}
    IN  {root} \cup classes \cup {c \o <<"test">> : c \in {k \in classes : Exists(f, k \o <<"test">>)}}

RECURSIVE Oracles(_, _)
\* os.listdir returns the entries in arbitrary order: every assignment of an
\* order to each listed directory.
Oracles(f, D) ==
    IF D = {} THEN {<<>>}
    ELSE LET d == CHOOSE x \in D : TRUE
         IN  {o @@ (d :> p) : o \in Oracles(f, D \ {d}), p \in Perms(Entries(f, d))}

\* os.listdir(d) under oracle o; it raises when d is not a directory.
Listdir(f, o, d) ==
    IF IsDir(f, d) /\ d \in DOMAIN o THEN [raised |-> FALSE, names |-> o[d]]
    ELSE [raised |-> TRUE, names |-> <<>>]

(* -------------------------------------------------------------- DataSet *)
\* self.exts = tuple(ext.lower() for ext in exts)
InitExts(exts) == [i \in 1..Len(IterStr(exts)) |-> Lower(IterStr(exts)[i])]

RECURSIVE Filter(_, _)
\* The loop of _get_filenames over one listing.
Filter(listing, exts) ==
    IF listing = <<>> THEN <<>>
    ELSE (IF EndsWith(Lower(Chars(Head(listing))), exts) THEN <<Head(listing)>> ELSE <<>>)
         \o Filter(Tail(listing), exts)

\* DataSet._get_filenames(dir) without its os.path.exists test.
GetFilenamesUnguarded(f, o, exts, dir) ==
    LET l == Listdir(f, o, dir)
    IN  [raised |-> l.raised, names |-> Filter(l.names, exts)]

\* DataSet._get_filenames(dir): the listing's names that end with one of exts;
\* no name when dir does not exist.
GetFilenames(f, o, exts, dir) ==
    IF Exists(f, dir)
    THEN LET l == Listdir(f, o, dir)
         IN  [raised |-> l.raised, names |-> Filter(l.names, exts)]
    ELSE [raised |-> FALSE, names |-> <<>>]

\* [class_number] * len(filenames)
Repeat(x, n) == [i \in 1..n |-> x]

RECURSIVE ScanLoopCountNonEmpty(_, _, _, _)
\* The for-loop of DataSet.__init__, counting a class only when it has a file.
ScanLoopCountNonEmpty(f, o, listing, self) ==
    IF listing = <<>> \/ self.tag = "OSError" THEN self
    ELSE LET name == Head(listing)
             current_dir == self.in_dir \o <<name>>
             filenames == GetFilenames(f, o, self.exts, current_dir)
             filenames_test == GetFilenames(f, o, self.exts, current_dir \o <<"test">>)
             class_number == self.num_classes
         IN  IF ~IsDir(f, current_dir) THEN ScanLoopCountNonEmpty(f, o, Tail(listing), self)
             ELSE IF filenames.raised \/ filenames_test.raised THEN OSError
             ELSE ScanLoopCountNonEmpty(f, o, Tail(listing),
                     [self EXCEPT
                        !.class_names = @ \o <<name>>,
                        !.filenames = @ \o filenames.names,
                        !.class_numbers = @ \o Repeat(class_number, Len(filenames.names)),
                        !.filenames_test = @ \o filenames_test.names,
                        !.class_numbers_test =
                            @ \o Repeat(class_number, Len(filenames_test.names)),
                        !.num_classes =
                            IF filenames.names \o filenames_test.names = <<>> THEN @ ELSE @ + 1])

RECURSIVE ScanLoop(_, _, _, _)
\* The for-loop of DataSet.__init__ over the root's listing. An exception
\* ends it: the constructor returns no object.
ScanLoop(f, o, listing, self) ==
    IF listing = <<>> \/ self.tag = "OSError" THEN self
    ELSE LET name == Head(listing)
             current_dir == self.in_dir \o <<name>>
             filenames == GetFilenames(f, o, self.exts, current_dir)
             filenames_test == GetFilenames(f, o, self.exts, current_dir \o <<"test">>)
             class_number == self.num_classes
         IN  IF ~IsDir(f, current_dir) THEN ScanLoop(f, o, Tail(listing), self)
             ELSE IF filenames.raised \/ filenames_test.raised THEN OSError
             ELSE ScanLoop(f, o, Tail(listing),
                     [self EXCEPT
                        !.class_names = @ \o <<name>>,
                        !.filenames = @ \o filenames.names,
                        !.class_numbers = @ \o Repeat(class_number, Len(filenames.names)),
                        !.filenames_test = @ \o filenames_test.names,
                        !.class_numbers_test =
                            @ \o Repeat(class_number, Len(filenames_test.names)),
                        !.num_classes = @ + 1])

\* DataSet(in_dir, exts) on tree f when os.listdir answers as oracle o says.
DataSet(f, o, in_dir, exts) ==
    IF Listdir(f, o, in_dir).raised THEN OSError
    ELSE ScanLoop(f, o, Listdir(f, o, in_dir).names,
            [tag |-> "DataSet", in_dir |-> in_dir, exts |-> InitExts(exts), class_names |-> <<>>,
             filenames |-> <<>>, filenames_test |-> <<>>, class_numbers |-> <<>>,
             class_numbers_test |-> <<>>, num_classes |-> 0])

(* ------------------------------------------------------ one_hot_encoded *)
\* np.max(class_numbers)
Max(s) == CHOOSE m \in {s[i] : i \in DOMAIN s} : \A i \in DOMAIN s : s[i] <= m

\* np.eye(n, dtype=float): row r has 1.0 at column r and 0.0 elsewhere.
Eye(n) == [r \in 1..n |-> [c \in 1..n |-> IF r = c THEN 1 ELSE 0]]

\* one_hot_encoded that always takes the width from the class numbers given.
one_hot_encoded_inferred(class_numbers, num_classes) ==
    LET n == IF class_numbers = <<>> THEN 0 ELSE Max(class_numbers) + 1
    IN  [shape |-> <<Len(class_numbers), n>>,
         rows  |-> [i \in 1..Len(class_numbers) |-> Eye(n)[class_numbers[i] + 1]]]

\* one_hot_encoded(class_numbers, num_classes); num_classes is None or an int
\* (wrapped as [tag |-> "int", int |-> n]). Row and column k of the arrays are index k + 1.
one_hot_encoded(class_numbers, num_classes) ==
    LET n == IF num_classes.tag = "None" THEN Max(class_numbers) + 1 ELSE num_classes.int
    IN  [shape |-> <<Len(class_numbers), n>>,
         rows  |-> [i \in 1..Len(class_numbers) |-> Eye(n)[class_numbers[i] + 1]]]

(* ------------------------------------------------------------ accessors *)
\* zip() stops at the shorter of its two sequences.
Min2(a, b) == IF a <= b THEN a ELSE b

\* get_paths that leaves the test sub-dir out of the path.
get_paths_flat(self, test) ==
    LET filenames == IF test THEN self.filenames_test ELSE self.filenames
        class_numbers == IF test THEN self.class_numbers_test ELSE self.class_numbers
    IN  [i \in 1..Min2(Len(filenames), Len(class_numbers)) |->
            self.in_dir \o <<self.class_names[class_numbers[i] + 1]>> \o <<filenames[i]>>]

\* DataSet.get_paths(test): os.path.join(in_dir, class_names[cls], test_dir, filename)
get_paths(self, test) ==
    LET filenames == IF test THEN self.filenames_test ELSE self.filenames
        class_numbers == IF test THEN self.class_numbers_test ELSE self.class_numbers
        sub == IF test THEN <<"test">> ELSE <<>>
    IN  [i \in 1..Min2(Len(filenames), Len(class_numbers)) |->
            self.in_dir \o <<self.class_names[class_numbers[i] + 1]>> \o sub \o <<filenames[i]>>]

\* DataSet.get_training_set()
get_training_set(self) ==
    [paths |-> get_paths(self, FALSE),
     class_numbers |-> self.class_numbers,
     one_hot |-> one_hot_encoded(self.class_numbers, [tag |-> "int", int |-> self.num_classes])]

\* DataSet.get_test_set()
get_test_set(self) ==
    [paths |-> get_paths(self, TRUE),
     class_numbers |-> self.class_numbers_test,
     one_hot |-> one_hot_encoded(self.class_numbers_test, [tag |-> "int", int |-> self.num_classes])]

\* What cloudy's main block reads from a loaded data-set.
Sets(self) == [tag |-> "Sets", train |-> get_training_set(self), test |-> get_test_set(self)]

(* ----------------------------------------------------- persistent cache *)
\* The persisted form of a DataSet: its fields, one after the other.
Serialize(obj) ==
    <<obj.in_dir, obj.exts, obj.class_names, obj.filenames, obj.filenames_test,
      obj.class_numbers, obj.class_numbers_test, obj.num_classes>>

SerializedLen == 8

\* The object a complete cache file holds.
Deserialize(bytes) ==
    [tag |-> "DataSet", in_dir |-> bytes[1], exts |-> bytes[2], class_names |-> bytes[3],
     filenames |-> bytes[4], filenames_test |-> bytes[5], class_numbers |-> bytes[6],
     class_numbers_test |-> bytes[7], num_classes |-> bytes[8]]

\* A file at p that deserializes: anything shorter is a corrupt cache.
Readable(f, p) == p \in DOMAIN f.files /\ Len(f.files[p]) = SerializedLen

WriteFile(f, p, content) == [f EXCEPT !.files = (p :> content) @@ @]

\* cache(cache_path, fn=DataSet, in_dir): the persisted object when there is
\* one, without calling fn; otherwise fn's result, persisted in one replace.
cache(f, o, path, in_dir) ==
    IF Readable(f, path)
    THEN [value |-> Deserialize(f.files[path]), fs |-> f, built |-> 0]
    ELSE LET obj == DataSet(f, o, in_dir, DefaultExts)
         IN  IF obj.tag = "OSError" THEN [value |-> OSError, fs |-> f, built |-> 1]
             ELSE [value |-> obj, fs |-> WriteFile(f, path, Serialize(obj)), built |-> 1]

(* The write of a cache miss, step by step: the serialized fields go to a   *)
(* temporary file one after the other, and the finished file replaces      *)
(* cache_path in one step.                                                 *)
\* A new, empty temporary file.
NewTemp == [tag |-> "Temp", written |-> 0, data |-> <<>>]

\* The next field written straight into the file at path.
cache_write_in_place(f, t, path, obj) ==
    [fs |-> WriteFile(f, path, SubSeq(Serialize(obj), 1, t.written + 1)),
     tmp |-> [t EXCEPT !.written = @ + 1]]

\* The next field of obj written to the temporary file t.
cache_write(f, t, path, obj) ==
    [fs |-> f,
     tmp |-> [t EXCEPT !.written = @ + 1,
                       !.data = Append(@, Serialize(obj)[t.written + 1])]]

\* The temporary file renamed over path.
cache_replace(f, t, path) == WriteFile(f, path, t.data)

\* load_cached as if it called the constructor directly.
load_uncached(f, o, path, in_dir) ==
    [value |-> DataSet(f, o, in_dir, DefaultExts), fs |-> f, built |-> 1]

\* dataset.load_cached(cache_path, in_dir)
load_cached(f, o, path, in_dir) == cache(f, o, path, in_dir)

\* cloudy.load()
load(f, o) == load_cached(f, o, cache_path, data_dir)

\* The listing orders a load() can meet: none is asked for on a cache hit.
LoadOracles(f) ==
    IF Readable(f, cache_path) THEN {<<>>} ELSE Oracles(f, Listed(f, data_dir))

(* ----------------------------------------------------------- copy_files *)
\* os.makedirs(d): d and every missing directory above it.
Makedirs(f, d) == [f EXCEPT !.dirs = @ \cup {SubSeq(d, 1, k) : k \in 1..Len(d)}]

RECURSIVE EnsureDirs(_, _)
\* The loop of _copy_files that creates each missing class directory.
EnsureDirs(f, class_dirs) ==
    IF class_dirs = <<>> THEN f
    ELSE EnsureDirs(IF Exists(f, Head(class_dirs)) THEN f ELSE Makedirs(f, Head(class_dirs)),
                    Tail(class_dirs))

\* shutil.copy(src, dst) into directory dst, appending to a destination file
\* that exists instead of replacing it.
shutil_copy_append(f, bad, src, dst) ==
    LET target == dst \o <<src[Len(src)]>>
    IN  IF src \notin DOMAIN f.files \/ src \in bad \/ ~IsDir(f, dst)
           \/ IsDir(f, target) \/ target = src
        THEN [raised |-> TRUE, fs |-> f]
        ELSE [raised |-> FALSE,
              fs |-> WriteFile(f, target,
                        (IF target \in DOMAIN f.files THEN f.files[target] ELSE <<>>)
                        \o f.files[src])]

\* shutil.copy(src, dst) into directory dst: the file dst/basename(src) gets
\* src's content, replacing what was there. It raises when src is no file or
\* cannot be read (bad), and when the target is a directory or src itself.
shutil_copy(f, bad, src, dst) ==
    LET target == dst \o <<src[Len(src)]>>
    IN  IF src \notin DOMAIN f.files \/ src \in bad \/ ~IsDir(f, dst)
           \/ IsDir(f, target) \/ target = src
        THEN [raised |-> TRUE, fs |-> f]
        ELSE [raised |-> FALSE, fs |-> WriteFile(f, target, f.files[src])]

RECURSIVE CopyLoop(_, _, _, _, _, _)
\* The copying loop of _copy_files from position i: the first copy that
\* raises ends it, and the files after it are not attempted.
CopyLoop(f, bad, src_paths, class_dirs, class_numbers, i) ==
    IF i > Min2(Len(src_paths), Len(class_numbers)) THEN [raised |-> FALSE, fs |-> f]
    ELSE LET r == shutil_copy(f, bad, src_paths[i], class_dirs[class_numbers[i] + 1])
         IN  IF r.raised THEN r
             ELSE CopyLoop(r.fs, bad, src_paths, class_dirs, class_numbers, i + 1)

\* The helper _copy_files(src_paths, dst_dir, class_numbers) of copy_files.
_copy_files(f, bad, self, src_paths, dst_dir, class_numbers) ==
    LET class_dirs == [k \in 1..Len(self.class_names) |-> dst_dir \o <<self.class_names[k]>>]
    IN  CopyLoop(EnsureDirs(f, class_dirs), bad, src_paths, class_dirs, class_numbers, 1)

\* DataSet.copy_files(train_dir, test_dir): the training-set, then the test-set.
DataSet_copy_files(f, bad, self, to_train, to_test) ==
    LET r == _copy_files(f, bad, self, get_paths(self, FALSE), to_train, self.class_numbers)
    IN  IF r.raised THEN r
        ELSE _copy_files(r.fs, bad, self, get_paths(self, TRUE), to_test,
                         self.class_numbers_test)

\* cloudy.copy_files(): load(), then dataset.copy_files(train_dir, test_dir).
copy_files(f, o, bad) ==
    LET l == load(f, o)
    IN  IF l.value.tag = "OSError" THEN [loaded |-> l, raised |-> TRUE, fs |-> l.fs]
        ELSE LET r == DataSet_copy_files(l.fs, bad, l.value, train_dir, test_dir)
             IN  [loaded |-> l, raised |-> r.raised, fs |-> r.fs]

\* What lies under the two export directories.
IsUnder(p, d) == Len(p) >= Len(d) /\ SubSeq(p, 1, Len(d)) = d
Exported(f) ==
    LET in(p) == IsUnder(p, train_dir) \/ IsUnder(p, test_dir)
    IN  [dirs |-> {p \in f.dirs : in(p)},
         files |-> [p \in {q \in DOMAIN f.files : in(q)} |-> f.files[p]]]

(* ------------------------------------------------------- initial states *)
ClassNames == {"cirrus", "fog"}
FileNames == {"a.jpg", "B.JPG", "c.png", "d.txt"}
Procs == {1, 2}

RECURSIVE SubsetsUpTo(_, _)
\* The subsets of S with at most k elements.
SubsetsUpTo(S, k) ==
    IF k = 0 THEN {{}}
    ELSE LET prev == SubsetsUpTo(S, k - 1)
         IN  prev \cup {A \cup {x} : A \in prev, x \in S}

\* The places of a tree with class directories C, those in T with a test directory.
Slots(C, T, names) ==
    {data_dir \o <<c, n>> : c \in C, n \in names}
    \cup {data_dir \o <<c, "test", n>> : c \in T, n \in names}

\* A tree as downloaded: class directories under data_dir, some of them with
\* a test directory, and at most MaxFiles files in them.
TreesOf(C, T, names) ==
    {[dirs |-> {<<"data">>, data_dir} \cup {data_dir \o <<c>> : c \in C}
                 \cup {data_dir \o <<c, "test">> : c \in T},
      files |-> [p \in F |-> <<p>>]] : F \in SubsetsUpTo(Slots(C, T, names), MaxFiles)}

Trees(classes, names) ==
    UNION {TreesOf(C, T, names) : C \in SUBSET classes, T \in SUBSET classes}

WellFormed(t) == \A d \in t.dirs : Len(d) = 4 => SubSeq(d, 1, 3) \in t.dirs

\* Nothing loaded, scanned or copied yet.
Fresh ==
    /\ dataset = None
    /\ firstSets = None
    /\ builds = 0
    /\ nLoads = 0
    /\ sets = None
    /\ fresh = None
    /\ copies = 0
    /\ exported = <<>>
    /\ lastCopy = None
    /\ enc = None
    /\ pc = [p \in Procs |-> "idle"]
    /\ loc = [p \in Procs |-> None]
    /\ tmp = [p \in Procs |-> None]

\* Any tree, at most one of its files unreadable.
Init ==
    /\ fs \in {t \in Trees(ClassNames, FileNames) : WellFormed(t)}
    /\ unreadable \in SubsetsUpTo(DOMAIN fs.files, 1)
    /\ Fresh

\* Any tree, every file readable.
InitScan ==
    /\ fs \in {t \in Trees(ClassNames, FileNames) : WellFormed(t)}
    /\ unreadable = {}
    /\ Fresh

\* Any tree of files named a.jpg, every file readable.
InitSmall ==
    /\ fs \in {t \in Trees(ClassNames, {"a.jpg"}) : WellFormed(t)}
    /\ unreadable = {}
    /\ Fresh

\* Any tree of the one class cirrus, every file readable.
InitExport ==
    /\ fs \in {t \in Trees({"cirrus"}, FileNames) : WellFormed(t)}
    /\ unreadable = {}
    /\ Fresh

(* -------------------------------------------------------------- actions *)
\* cloudy.load(), the caller keeping the returned data-set.
Load ==
    /\ nLoads < MaxLoads
    /\ \E o \in LoadOracles(fs) :
         LET l == load(fs, o)
         IN  /\ fs' = l.fs
             /\ builds' = builds + l.built
             /\ dataset' = IF l.value.tag = "OSError" THEN dataset ELSE l.value
             /\ firstSets' = IF firstSets.tag = "None" /\ l.value.tag # "OSError"
                             THEN Sets(l.value) ELSE firstSets
    /\ nLoads' = nLoads + 1
    /\ UNCHANGED <<unreadable, sets, fresh, copies, exported, lastCopy, enc, pc, loc, tmp>>

\* dataset.get_training_set() and dataset.get_test_set(), as cloudy's main block.
GetSets ==
    /\ dataset.tag # "None"
    /\ sets' = Sets(dataset)
    /\ UNCHANGED <<fs, unreadable, dataset, firstSets, builds, nLoads, fresh, copies,
                   exported, lastCopy, enc, pc, loc, tmp>>

RECURSIVE DirsOf(_, _, _)
\* The directories among a listing of root, in the listing's order.
DirsOf(f, root, listing) ==
    IF listing = <<>> THEN <<>>
    ELSE (IF IsDir(f, root \o <<Head(listing)>>) THEN <<Head(listing)>> ELSE <<>>)
         \o DirsOf(f, root, Tail(listing))

\* DataSet(data_dir) constructed directly: a scan of the tree as it is now.
\* fresh keeps the object, the tree it was built from and the order in which
\* os.listdir gave the root's directories.
Rescan ==
    /\ \E o \in Oracles(fs, Listed(fs, data_dir)) :
         fresh' = [tag |-> "Scan", ds |-> DataSet(fs, o, data_dir, DefaultExts),
                   order |-> DirsOf(fs, data_dir, o[data_dir]), tree |-> fs]
    /\ UNCHANGED <<fs, unreadable, dataset, firstSets, builds, nLoads, sets, copies,
                   exported, lastCopy, enc, pc, loc, tmp>>

\* cloudy.copy_files()
CopyFiles ==
    /\ copies < MaxCopies
    /\ nLoads < MaxLoads
    /\ \E o \in LoadOracles(fs) :
         LET c == copy_files(fs, o, unreadable)
         IN  /\ fs' = c.fs
             /\ builds' = builds + c.loaded.built
             /\ dataset' = IF c.loaded.value.tag = "OSError" THEN dataset ELSE c.loaded.value
             /\ firstSets' = IF firstSets.tag = "None" /\ c.loaded.value.tag # "OSError"
                             THEN Sets(c.loaded.value) ELSE firstSets
             /\ lastCopy' = [tag |-> "Copy", raised |-> c.raised, index |-> c.loaded.value]
             /\ exported' = Append(exported, Exported(c.fs))
    /\ nLoads' = nLoads + 1
    /\ copies' = copies + 1
    /\ UNCHANGED <<unreadable, sets, fresh, enc, pc, loc, tmp>>

\* The program of cloudy.py: load(), the accessors, copy_files().
Next == Load \/ GetSets \/ CopyFiles
Spec == Init /\ [][Next]_vars

\* one_hot_encoded called on its own, with num_classes given or left None.
Encode ==
    /\ \E n \in 1..MaxEncClasses : \E len \in 0..MaxEncLen :
         \E cs \in [1..len -> 0..(n - 1)] :
           \E arg \in {[tag |-> "int", int |-> n]} \cup (IF len = 0 THEN {} ELSE {None}) :
             enc' = [tag |-> "Enc", class_numbers |-> cs, num_classes |-> arg,
                     out |-> one_hot_encoded(cs, arg)]
    /\ UNCHANGED <<fs, unreadable, dataset, firstSets, builds, nLoads, sets, fresh, copies,
                   exported, lastCopy, pc, loc, tmp>>

\* The accessors and the encoder.
NextOneHot == Load \/ GetSets \/ Encode
SpecOneHot == InitSmall /\ [][NextOneHot]_vars

(* Two callers of load_cached(cache_path, data_dir) on one cache file, each *)
(* step of a call being one action.                                         *)
RaceFrame == UNCHANGED <<unreadable, dataset, firstSets, builds, nLoads, sets, fresh,
                         copies, exported, lastCopy, enc>>

\* p calls load_cached.
Begin(p) ==
    /\ pc[p] = "idle"
    /\ pc' = [pc EXCEPT ![p] = "check"]
    /\ UNCHANGED <<fs, loc, tmp>>
    /\ RaceFrame

\* p looks for a persisted object: a hit returns it, a miss goes on to build.
Check(p) ==
    /\ pc[p] = "check"
    /\ IF Readable(fs, cache_path)
       THEN /\ loc' = [loc EXCEPT ![p] = Deserialize(fs.files[cache_path])]
            /\ pc' = [pc EXCEPT ![p] = "done"]
       ELSE /\ pc' = [pc EXCEPT ![p] = "build"]
            /\ UNCHANGED loc
    /\ UNCHANGED <<fs, tmp>>
    /\ RaceFrame

\* p's miss calls DataSet(in_dir) and opens its temporary file.
Build(p) ==
    /\ pc[p] = "build"
    /\ \E o \in Oracles(fs, Listed(fs, data_dir)) :
         loc' = [loc EXCEPT ![p] = DataSet(fs, o, data_dir, DefaultExts)]
    /\ tmp' = [tmp EXCEPT ![p] = NewTemp]
    /\ pc' = [pc EXCEPT ![p] = "write"]
    /\ UNCHANGED fs
    /\ RaceFrame

\* p writes the next field of its object.
WriteField(p) ==
    /\ pc[p] = "write"
    /\ tmp[p].written < SerializedLen
    /\ LET w == cache_write(fs, tmp[p], cache_path, loc[p])
       IN  /\ fs' = w.fs
           /\ tmp' = [tmp EXCEPT ![p] = w.tmp]
    /\ UNCHANGED <<pc, loc>>
    /\ RaceFrame

\* p has written every field: its file replaces the cache file and the call returns.
Replace(p) ==
    /\ pc[p] = "write"
    /\ tmp[p].written = SerializedLen
    /\ fs' = cache_replace(fs, tmp[p], cache_path)
    /\ tmp' = [tmp EXCEPT ![p] = None]
    /\ pc' = [pc EXCEPT ![p] = "done"]
    /\ UNCHANGED loc
    /\ RaceFrame

NextRace == \E p \in Procs : Begin(p) \/ Check(p) \/ Build(p) \/ WriteField(p) \/ Replace(p)
SpecRace == InitSmall /\ [][NextRace]_vars

\* Scans of a tree as downloaded.
NextScan == Rescan
SpecScan == InitScan /\ [][NextScan]_vars

\* Scans of a tree before and after exports into it.
NextExport == Load \/ Rescan \/ CopyFiles
SpecExport == InitExport /\ [][NextExport]_vars

(* =============================================================== claims *)
\* Some listing order of the present tree gives other sets than the first load's.
OrderMatters ==
    \E o \in Oracles(fs, Listed(fs, data_dir)) :
        Sets(DataSet(fs, o, data_dir, DefaultExts)) # firstSets

\* C1. Determinism under caching: every load() after the first returns the
\* same (paths, class_numbers, one_hot) for the training and the test set as
\* the first did, and the DataSet constructor runs for the first one only.
DeterminismUnderCaching ==
    /\ builds <= 1
    /\ dataset.tag # "None" => Sets(dataset) = firstSets /\ builds = 1

\* C1 witness: a second load() of a tree that another listing order would
\* index differently.
DeterminismWitness ==
    /\ nLoads >= 2
    /\ copies = 0
    /\ dataset.tag = "DataSet"
    /\ OrderMatters

\* The place copy_files gives record i of a split of index self.
Dest(self, test, i) ==
    LET filenames == IF test THEN self.filenames_test ELSE self.filenames
        class_numbers == IF test THEN self.class_numbers_test ELSE self.class_numbers
    IN  (IF test THEN test_dir ELSE train_dir)
        \o <<self.class_names[class_numbers[i] + 1], filenames[i]>>

\* The source of a record can be copied.
Copyable(f, src) == src \in DOMAIN f.files /\ src \notin unreadable

\* C5. Export failure isolation: after copy_files(), every record whose own
\* copy cannot fail is at its destination, whatever happened to the others.
ExportFailureIsolation ==
    (lastCopy.tag = "Copy" /\ lastCopy.index.tag = "DataSet") =>
        \A test \in BOOLEAN :
            \A i \in DOMAIN get_paths(lastCopy.index, test) :
                LET src == get_paths(lastCopy.index, test)[i]
                    dst == Dest(lastCopy.index, test, i)
                IN  Copyable(fs, src) =>
                        dst \in DOMAIN fs.files /\ fs.files[dst] = fs.files[src]

\* C7. Export idempotence: the export directories hold the same files with
\* the same contents after every copy_files() as after the first, and after a
\* run that did not raise they hold one file per record and nothing else.
ExportIdempotence ==
    /\ \A i \in DOMAIN exported : exported[i] = exported[1]
    /\ (lastCopy.tag = "Copy" /\ ~lastCopy.raised) =>
           /\ DOMAIN Exported(fs).files =
                  {Dest(dataset, test, i) : test \in {FALSE}, i \in DOMAIN dataset.filenames}
                  \cup {Dest(dataset, test, i) : test \in {TRUE},
                                                 i \in DOMAIN dataset.filenames_test}
           /\ \A test \in BOOLEAN :
                  \A i \in DOMAIN get_paths(dataset, test) :
                      fs.files[Dest(dataset, test, i)] = fs.files[get_paths(dataset, test)[i]]

\* C7 witness: a second copy_files() over destinations the first one filled.
ExportIdempotenceWitness ==
    /\ Len(exported) >= 2
    /\ ~lastCopy.raised
    /\ Cardinality(DOMAIN exported[1].files) >= 2

(* ------------------------------------------- claims about a built index *)
\* A scan has returned an object.
Scanned == fresh.tag = "Scan" /\ fresh.ds.tag = "DataSet"

\* os.path.splitext(name)[1]: from the last dot on, nothing when there is no
\* dot after the first character.
Ext(s) ==
    LET dots == {k \in 2..Len(s) : s[k] = "."}
    IN  IF dots = {} THEN <<>>
        ELSE SubSeq(s, CHOOSE k \in dots : \A j \in dots : j <= k, Len(s))

\* The filenames an index records for class name c in one split.
Recorded(self, c, test) ==
    LET filenames == IF test THEN self.filenames_test ELSE self.filenames
        class_numbers == IF test THEN self.class_numbers_test ELSE self.class_numbers
    IN  {filenames[i] : i \in {j \in DOMAIN filenames :
                                  self.class_names[class_numbers[j] + 1] = c}}

\* C2. Extension filter: an entry of a class directory or of its test
\* directory is recorded exactly when its extension is .jpg in any case.
ExtensionFilter ==
    Scanned =>
        \A k \in DOMAIN fresh.order : \A test \in BOOLEAN :
            LET dir == data_dir \o <<fresh.order[k]>> \o (IF test THEN <<"test">> ELSE <<>>)
            IN  Recorded(fresh.ds, fresh.order[k], test) =
                    {n \in Entries(fresh.tree, dir) : Lower(Ext(Chars(n))) = <<".", "j", "p", "g">>}

\* The one-hot matrix has one row per class number and num_classes columns.
Aligned(set, num_classes) ==
    /\ Len(set.paths) = Len(set.class_numbers)
    /\ set.one_hot.shape = <<Len(set.class_numbers), num_classes>>
    /\ Len(set.one_hot.rows) = Len(set.class_numbers)

\* C3. Parallel accessor alignment: the three sequences of get_training_set()
\* and of get_test_set() have one length, and path i is a file of the tree, in
\* the directory (or test directory) of the class numbered class_numbers[i] in
\* discovery order, named as the record at position i.
ParallelAccessorAlignment ==
    Scanned =>
        \A test \in BOOLEAN :
            LET set == IF test THEN get_test_set(fresh.ds) ELSE get_training_set(fresh.ds)
                filenames == IF test THEN fresh.ds.filenames_test ELSE fresh.ds.filenames
            IN  /\ Aligned(set, fresh.ds.num_classes)
                /\ Len(set.paths) = Len(filenames)
                /\ \A i \in DOMAIN set.paths :
                       /\ set.class_numbers[i] + 1 \in DOMAIN fresh.order
                       /\ set.paths[i] =
                              data_dir \o <<fresh.order[set.class_numbers[i] + 1]>>
                              \o (IF test THEN <<"test">> ELSE <<>>) \o <<filenames[i]>>
                       /\ set.paths[i] \in DOMAIN fresh.tree.files
                /\ \A i, j \in DOMAIN set.paths : set.paths[i] = set.paths[j] => i = j

\* C3 witness: an index with a training file and a test file of the class
\* discovered second.
AlignmentWitness ==
    /\ Scanned
    /\ \E i \in DOMAIN fresh.ds.class_numbers : fresh.ds.class_numbers[i] = 1
    /\ \E i \in DOMAIN fresh.ds.class_numbers_test : fresh.ds.class_numbers_test[i] = 1

\* The class numbers of both splits.
AllNumbers(self) ==
    {self.class_numbers[i] : i \in DOMAIN self.class_numbers}
    \cup {self.class_numbers_test[i] : i \in DOMAIN self.class_numbers_test}

MaxOf(S) == CHOOSE m \in S : \A x \in S : x <= m

\* C4 as stated. Class count consistency: with at least one file recorded,
\* len(class_names) == num_classes == 1 + max(class_numbers U class_numbers_test).
ClassCountConsistency ==
    (Scanned /\ AllNumbers(fresh.ds) # {}) =>
        /\ Len(fresh.ds.class_names) = fresh.ds.num_classes
        /\ fresh.ds.num_classes = 1 + MaxOf(AllNumbers(fresh.ds))

\* C4 as amended: len(class_names) == num_classes always; with at least one
\* file recorded, 1 + max(class numbers) <= num_classes, with equality exactly
\* when the class discovered last has a recorded file.
ClassCountAtLeast ==
    Scanned =>
        /\ Len(fresh.ds.class_names) = fresh.ds.num_classes
        /\ fresh.ds.num_classes = Len(fresh.order)
        /\ AllNumbers(fresh.ds) # {} =>
               /\ 1 + MaxOf(AllNumbers(fresh.ds)) <= fresh.ds.num_classes
               /\ (1 + MaxOf(AllNumbers(fresh.ds)) = fresh.ds.num_classes
                   <=> \E test \in BOOLEAN :
                          Recorded(fresh.ds, fresh.order[Len(fresh.order)], test) # {})

\* C4 witness: two classes, files recorded, none of them of the class
\* discovered last.
ClassCountWitness ==
    /\ Scanned
    /\ fresh.ds.num_classes = 2
    /\ AllNumbers(fresh.ds) = {0}

OneHotRow(row, c, n) ==
    /\ Len(row) = n
    /\ \A k \in 1..n : row[k] = (IF k = c + 1 THEN 1 ELSE 0)

OneHotOf(m, cs, n) ==
    /\ m.shape = <<Len(cs), n>>
    /\ Len(m.rows) = Len(cs)
    /\ \A i \in DOMAIN cs : OneHotRow(m.rows[i], cs[i], n)

\* C9. One-hot encoding: one_hot_encoded(cs, n) is a len(cs) x n matrix whose
\* row i has 1.0 at column cs[i] and 0.0 elsewhere, and the matrices of
\* get_training_set() and get_test_set() both have width num_classes.
OneHotEncoding ==
    /\ (enc.tag = "Enc" /\ enc.num_classes.tag = "int") =>
           OneHotOf(enc.out, enc.class_numbers, enc.num_classes.int)
    /\ sets.tag = "Sets" =>
           /\ OneHotOf(sets.train.one_hot, dataset.class_numbers, dataset.num_classes)
           /\ OneHotOf(sets.test.one_hot, dataset.class_numbers_test, dataset.num_classes)

\* C9 witness: the sets of an index of two classes whose test set has no file
\* of class 1, and an encoding of two class numbers into two classes.
OneHotWitness ==
    /\ sets.tag = "Sets"
    /\ dataset.num_classes = 2
    /\ \E i \in DOMAIN dataset.class_numbers : dataset.class_numbers[i] = 1
    /\ dataset.class_numbers_test = <<0>>
    /\ enc.tag = "Enc"
    /\ enc.num_classes.tag = "int"
    /\ enc.num_classes.int = 2
    /\ enc.class_numbers = <<1, 0>>

\* C6. Atomic cache write: whenever a file is at cache_path it is a complete
\* serialized index, the one some caller built, and every caller that has
\* returned holds a complete index.
AtomicCacheWrite ==
    /\ cache_path \in DOMAIN fs.files =>
           /\ Readable(fs, cache_path)
           /\ \E p \in Procs : loc[p].tag = "DataSet"
                               /\ fs.files[cache_path] = Serialize(loc[p])
    /\ \A p \in Procs : pc[p] = "done" =>
           loc[p].tag = "DataSet" /\ Deserialize(Serialize(loc[p])) = loc[p]

\* C6 witness: one caller is in the middle of its write while the other has
\* already put its file in place.
AtomicCacheWriteWitness ==
    \E p, q \in Procs :
        /\ p # q
        /\ pc[p] = "write"
        /\ tmp[p].written > 0
        /\ tmp[p].written < SerializedLen
        /\ pc[q] = "done"
        /\ Readable(fs, cache_path)

\* The file records of an index: class name, split and filename.
Records(self) ==
    {<<self.class_names[self.class_numbers[i] + 1], "train", self.filenames[i]>> :
        i \in DOMAIN self.filenames}
    \cup {<<self.class_names[self.class_numbers_test[i] + 1], "test", self.filenames_test[i]>> :
             i \in DOMAIN self.filenames_test}

\* C10. Export does not change what a scan discovers: a fresh scan of
\* data_dir finds the classes, the class count and the file records of the
\* index that load() built before the first copy_files().
ExportKeepsScan ==
    (Scanned /\ dataset.tag = "DataSet") =>
        /\ {fresh.ds.class_names[k] : k \in DOMAIN fresh.ds.class_names}
             = {dataset.class_names[k] : k \in DOMAIN dataset.class_names}
        /\ fresh.ds.num_classes = dataset.num_classes
        /\ Records(fresh.ds) = Records(dataset)

====
